---- MODULE Spec2Model ----
(***************************************************************************)
(* A model of json.h: the tagged element, the owning value class with its  *)
(* append operation, the element equality and ordering, the recursive      *)
(* descent parser and the text writer.                                     *)
(*                                                                         *)
(* Characters are one-character strings, C strings and streams are         *)
(* sequences of characters.  A double is modelled by an integer, with one  *)
(* distinguished value NaN that compares false with everything.  Pointers  *)
(* to objects are modelled by natural numbers.  The last part runs the     *)
(* value class on a memory of stack objects and heap buffers, where        *)
(* ownership, release and aliasing of arguments can be observed.           *)
(***************************************************************************)
EXTENDS Integers, Sequences, FiniteSets, TLC

VARIABLES
    op,       \* the operation the program has run last
    a, b,     \* the elements an operation is given
    v,        \* the json::value the program holds
    o,        \* the json::object the program holds
    is,       \* the character stream read from
    garbage,  \* what memory that was never written holds: a character, a tag
    ret,      \* what the operation returned
    mem       \* the memory of the run on value objects: stack, heap, events

vars == <<op, a, b, v, o, is, garbage, ret, mem>>

-----------------------------------------------------------------------------
(* json_element_type: the ordinals of the enumeration, in declaration order *)

JSON_STRING == 0
JSON_NUMBER == 1
JSON_OBJECT == 2
JSON_ARRAY == 3
JSON_TRUE == 4
JSON_FALSE == 5
JSON_NULL == 6
JSON_BYTE == 7
JSON_INT32 == 8
JSON_INT64 == 9
JSON_DATE == 10
JSON_UNDEFINED == 11

Tags == JSON_STRING .. JSON_UNDEFINED

(* The double that is not a number: every comparison with it is false. *)
NaN == -1

-----------------------------------------------------------------------------
(* Characters.  AsciiOrder lists the characters of the model in the order  *)
(* of their codes, which is all strcmp, memcmp and isspace need.           *)

AsciiOrder ==
    << " ", "\"", "'", "(", ")", "*", "+", ",", "-", ".",
       "0", "1", "2", "3", "4", "5", "6", "7", "8", "9", ":",
       "[", "\\", "]",
       "a", "b", "c", "d", "e", "f", "i", "l", "n", "r", "s", "t", "u", "x",
       "{", "}" >>

Chars == { AsciiOrder[i] : i \in 1..Len(AsciiOrder) }

Code(c) == CHOOSE i \in 1..Len(AsciiOrder) : AsciiOrder[i] = c

IsSpace(c) == c = " "

Digits == << "0", "1", "2", "3", "4", "5", "6", "7", "8", "9" >>

IsDigit(c) == \E i \in 1..10 : Digits[i] = c

DigitVal(c) == (CHOOSE i \in 1..10 : Digits[i] = c) - 1

-----------------------------------------------------------------------------
(* struct element: the tag and the union.  One record shape for every tag: *)
(*   size  string.size / array.size / byte.size                            *)
(*   num   number / object pointer / int32 / int64 / date                  *)
(*   str   the characters string.data points to, up to the terminating    *)
(*         NUL, or the size bytes byte.data points to                      *)
(*   arr   the size elements array.element points to                      *)

element(type, size, num, str, arr) ==
    [type |-> type, size |-> size, num |-> num, str |-> str, arr |-> arr]

(* string_(size, data): a view of size characters on the C string data *)
string_(size, data) == element(JSON_STRING, size, 0, data, <<>>)

(* array_(size, element) *)
array_(elems) == element(JSON_ARRAY, Len(elems), 0, <<>>, elems)

(* byte_(size, data) *)
byte_(data) == element(JSON_BYTE, Len(data), 0, data, <<>>)

Scalar(type, num) == element(type, 0, num, <<>>, <<>>)

Number(n) == Scalar(JSON_NUMBER, n)
Object(p) == Scalar(JSON_OBJECT, p)
True == Scalar(JSON_TRUE, 0)
False == Scalar(JSON_FALSE, 0)
Null == Scalar(JSON_NULL, 0)
Undefined == Scalar(JSON_UNDEFINED, 0)

(* value::construct_string(s): a String whose size is strlen(s) *)
String(s) == string_(Len(s), s)

-----------------------------------------------------------------------------
(* Comparison of the payloads *)

RECURSIVE strcmp(_, _)
strcmp(s, t) ==
    IF s = <<>> /\ t = <<>> THEN 0
    ELSE IF s = <<>> THEN -1
    ELSE IF t = <<>> THEN 1
    ELSE IF Code(Head(s)) < Code(Head(t)) THEN -1
    ELSE IF Code(Head(s)) > Code(Head(t)) THEN 1
    ELSE strcmp(Tail(s), Tail(t))

(* operator==(const string&, const string&) *)
eq_string(s, t) == s.size = t.size /\ strcmp(s.str, t.str) = 0

(* A slip an ordering could make: <= where < is meant. *)
lt_string_or_equal(s, t) == strcmp(s.str, t.str) <= 0

(* operator<(const string&, const string&) *)
lt_string(s, t) == strcmp(s.str, t.str) < 0

(* operator==(const byte&, const byte&): sizes and memcmp over a.size bytes *)
eq_byte(x, y) == x.size = y.size /\ x.str = y.str

(* operator<(const byte&, const byte&): std::lexicographical_compare *)
RECURSIVE lex_bytes(_, _)
lex_bytes(s, t) ==
    IF s = <<>> \/ t = <<>> THEN s = <<>> /\ t # <<>>
    ELSE IF Code(Head(s)) < Code(Head(t)) THEN TRUE
    ELSE IF Code(Head(t)) < Code(Head(s)) THEN FALSE
    ELSE lex_bytes(Tail(s), Tail(t))

lt_byte(x, y) == lex_bytes(x.str, y.str)

(* comparison of doubles *)
eq_double(x, y) == x # NaN /\ y # NaN /\ x = y
lt_double(x, y) == x # NaN /\ y # NaN /\ x < y

RECURSIVE eq_element(_, _), lt_element(_, _)

(* std::equal(a.element, a.element + a.size, b.element) with operator== *)
RECURSIVE std_equal(_, _)
std_equal(s, t) ==
    IF s = <<>> THEN TRUE
    ELSE eq_element(Head(s), Head(t)) /\ std_equal(Tail(s), Tail(t))

(* operator==(const array&, const array&) *)
eq_array(x, y) == x.size = y.size /\ std_equal(x.arr, y.arr)

(* std::lexicographical_compare over elements with operator< *)
RECURSIVE lexicographical_compare(_, _)
lexicographical_compare(s, t) ==
    IF s = <<>> \/ t = <<>> THEN s = <<>> /\ t # <<>>
    ELSE IF lt_element(Head(s), Head(t)) THEN TRUE
    ELSE IF lt_element(Head(t), Head(s)) THEN FALSE
    ELSE lexicographical_compare(Tail(s), Tail(t))

(* operator<(const array&, const array&) *)
lt_array(x, y) == lexicographical_compare(x.arr, y.arr)

(* operator==(const element&, bool) and operator<(const element&, bool) *)
eq_bool(e, bb) == (bb /\ e.type = JSON_TRUE) \/ (~bb /\ e.type = JSON_FALSE)
lt_bool(e, bb) == e.type = JSON_FALSE /\ bb

(* A slip an ordering could make: tags compared the wrong way round. *)
lt_element_reversed(x, y) ==
    IF x.type > y.type THEN TRUE
    ELSE IF x.type < y.type THEN FALSE
    ELSE IF x.type = JSON_STRING THEN lt_string(x, y)
    ELSE IF x.type = JSON_NUMBER THEN lt_double(x.num, y.num)
    ELSE IF x.type = JSON_OBJECT THEN x.num < y.num
    ELSE IF x.type = JSON_ARRAY THEN lt_array(x, y)
    ELSE IF x.type = JSON_BYTE THEN lt_byte(x, y)
    ELSE IF x.type \in {JSON_INT32, JSON_INT64, JSON_DATE} THEN x.num < y.num
    ELSE FALSE

(* A slip an equality could make: Null taken to equal Null. *)
eq_element_null_equal(x, y) ==
    IF x.type = JSON_NULL /\ y.type = JSON_NULL THEN TRUE ELSE x = y

(* operator==(const element&, const element&) *)
eq_element(x, y) ==
    IF x.type # y.type THEN FALSE
    ELSE IF x.type = JSON_STRING THEN eq_string(x, y)
    ELSE IF x.type = JSON_NUMBER THEN eq_double(x.num, y.num)
    ELSE IF x.type = JSON_OBJECT THEN x.num = y.num
    ELSE IF x.type = JSON_ARRAY THEN eq_array(x, y)
    ELSE IF x.type = JSON_TRUE THEN y.type = JSON_TRUE
    ELSE IF x.type = JSON_FALSE THEN y.type = JSON_FALSE
    ELSE IF x.type = JSON_NULL THEN FALSE
    ELSE IF x.type = JSON_BYTE THEN eq_byte(x, y)
    ELSE IF x.type \in {JSON_INT32, JSON_INT64, JSON_DATE} THEN x.num = y.num
    ELSE FALSE

(* operator<(const element&, const element&) *)
lt_element(x, y) ==
    IF x.type < y.type THEN TRUE
    ELSE IF x.type > y.type THEN FALSE
    ELSE IF x.type = JSON_STRING THEN lt_string(x, y)
    ELSE IF x.type = JSON_NUMBER THEN lt_double(x.num, y.num)
    ELSE IF x.type = JSON_OBJECT THEN x.num < y.num
    ELSE IF x.type = JSON_ARRAY THEN lt_array(x, y)
    ELSE IF x.type = JSON_TRUE THEN FALSE
    ELSE IF x.type = JSON_FALSE THEN y.type = JSON_TRUE
    ELSE IF x.type = JSON_NULL THEN FALSE
    ELSE IF x.type = JSON_BYTE THEN lt_byte(x, y)
    ELSE IF x.type \in {JSON_INT32, JSON_INT64, JSON_DATE} THEN x.num < y.num
    ELSE FALSE

-----------------------------------------------------------------------------
(* A stream that nothing is read from, memory that nothing reads *)

NoStream == [buf |-> <<>>, pos |-> 1, fail |-> FALSE]
NoGarbage == [c |-> " ", tag |-> JSON_UNDEFINED]
NoMemory == [status |-> "none"]

-----------------------------------------------------------------------------
(* The elements the comparisons are run on *)

MaxStrLen == 1
MaxArrayLen == 2

SeqsUpTo(S, n) == UNION { [1..k -> S] : k \in 0..n }

CStrings == SeqsUpTo({"a", "b"}, MaxStrLen)

(* string views: every size with every C string, consistent or not *)
StringElements == { string_(n, s) : n \in 0..MaxStrLen, s \in CStrings }

ByteElements == { byte_(s) : s \in CStrings }

ScalarElements ==
    { Number(0), Number(1), Number(NaN), Object(1), Object(2),
      True, False, Null, Undefined }
    \cup { Scalar(t, n) : t \in {JSON_INT32, JSON_INT64, JSON_DATE}, n \in {0, 1} }

ItemElements == { Number(0), String(<<"a">>), Null, True }

InnerArrays == { array_(s) : s \in SeqsUpTo(ItemElements, 1) }

ArrayElements ==
    { array_(s) : s \in SeqsUpTo(ItemElements \cup InnerArrays, MaxArrayLen) }

Elements == StringElements \cup ByteElements \cup ScalarElements \cup ArrayElements

NoCompare == [eq |-> FALSE, lt |-> FALSE, gt |-> FALSE]

InitCompare ==
    /\ op = "start"
    /\ a \in Elements
    /\ b \in Elements
    /\ v = Undefined
    /\ o = {}
    /\ is = NoStream
    /\ garbage = NoGarbage
    /\ ret = NoCompare
    /\ mem = NoMemory

(* a == b, a < b and b < a on two elements *)
Compare ==
    /\ op = "start"
    /\ op' = "compare"
    /\ ret' = [eq |-> eq_element(a, b), lt |-> lt_element(a, b), gt |-> lt_element(b, a)]
    /\ UNCHANGED <<a, b, v, o, is, garbage, mem>>

NextCompare == Compare

SpecCompare == InitCompare /\ [][NextCompare]_vars

-----------------------------------------------------------------------------
(* Claims on the ordering and the equality *)

ExactlyOne(p, q, r) == (p /\ ~q /\ ~r) \/ (~p /\ q /\ ~r) \/ (~p /\ ~q /\ r)

(* No Null, Undefined or NaN at any depth, and every String is a C string *)
(* whose size is its length.                                               *)
RECURSIVE Comparable(_)
Comparable(e) ==
    /\ e.type \notin {JSON_NULL, JSON_UNDEFINED}
    /\ e.type = JSON_NUMBER => e.num # NaN
    /\ e.type = JSON_STRING => e.size = Len(e.str)
    /\ e.type = JSON_ARRAY => \A i \in 1..Len(e.arr) : Comparable(e.arr[i])

(* C6 as stated: two elements of the same tag, neither Null nor Undefined, *)
(* satisfy exactly one of a < b, b < a, a == b.                            *)
C6_TrichotomySameTag ==
    (op = "compare" /\ a.type = b.type /\ a.type \notin {JSON_NULL, JSON_UNDEFINED})
        => ExactlyOne(ret.lt, ret.gt, ret.eq)

(* C6 amended: two elements of the same tag that hold no Null, Undefined   *)
(* or NaN at any depth, and whose Strings have size equal to their length, *)
(* satisfy exactly one of a < b, b < a, a == b.                            *)
C6_TrichotomyComparable ==
    (op = "compare" /\ a.type = b.type /\ Comparable(a) /\ Comparable(b))
        => ExactlyOne(ret.lt, ret.gt, ret.eq)

(* two nested arrays with a common first item, ordered by their second:  *)
(* a String before a Number                                              *)
C6_Witness ==
    /\ op = "compare"
    /\ a.type = JSON_ARRAY /\ b.type = JSON_ARRAY
    /\ Comparable(a) /\ Comparable(b)
    /\ a.size = 2 /\ b.size = 2
    /\ a.arr[1] = b.arr[1] /\ a.arr[1].type = JSON_ARRAY
    /\ a.arr[2].type = JSON_STRING /\ b.arr[2].type = JSON_NUMBER
    /\ ret.lt /\ ~ret.gt /\ ~ret.eq

(* the enumeration json_element_type, in declaration order *)
EnumOrder ==
    << JSON_STRING, JSON_NUMBER, JSON_OBJECT, JSON_ARRAY, JSON_TRUE, JSON_FALSE,
       JSON_NULL, JSON_BYTE, JSON_INT32, JSON_INT64, JSON_DATE, JSON_UNDEFINED >>

Ordinal(t) == CHOOSE i \in 1..Len(EnumOrder) : EnumOrder[i] = t

(* C7: two elements of different tags are never equal, and a < b exactly   *)
(* when a's tag comes earlier in the enumeration than b's, whatever the    *)
(* payloads.                                                               *)
C7_DifferentTags ==
    (op = "compare" /\ a.type # b.type)
        => /\ ~ret.eq
           /\ ret.lt <=> Ordinal(a.type) < Ordinal(b.type)
           /\ ret.gt <=> Ordinal(b.type) < Ordinal(a.type)

(* an array against a string view whose size differs from its length *)
C7_Witness ==
    /\ op = "compare"
    /\ a.type = JSON_ARRAY /\ a.size = 2
    /\ b.type = JSON_STRING /\ b.size # Len(b.str)
    /\ ~ret.lt /\ ret.gt /\ ~ret.eq

(* C8 as stated: False < True holds, True < False does not, True == True   *)
(* and False == False.                                                     *)
C8_TrueGreaterThanFalse ==
    /\ (op = "compare" /\ a.type = JSON_FALSE /\ b.type = JSON_TRUE)
           => (ret.lt /\ ~ret.gt)
    /\ (op = "compare" /\ a.type = b.type /\ a.type \in {JSON_TRUE, JSON_FALSE})
           => ret.eq

(* C14: a Null element compared with itself is neither == nor <: n == n   *)
(* is false and n < n is false.                                           *)
C14_NullIrreflexive ==
    (op = "compare" /\ a.type = JSON_NULL /\ b = a)
        => (~ret.eq /\ ~ret.lt /\ ~ret.gt)

(* Null has been compared with itself *)
C14_Witness ==
    /\ op = "compare"
    /\ a = Null /\ b = Null
    /\ ~ret.eq /\ ~ret.lt

-----------------------------------------------------------------------------
(* class value: assignment and append.  A value owns its buffers and every *)
(* assignment copies deeply, so a value is modelled by the element it      *)
(* holds.  Memory that no constructor has written (the object behind a     *)
(* copy constructor, a slot that realloc added) holds an indeterminate     *)
(* tag, the variable garbage.                                              *)

(* the tags whose delete_value frees data.*.data / data.array.element *)
Owning == {JSON_STRING, JSON_ARRAY, JSON_BYTE}

(* value::construct_string(s, size): size ? size : strlen(s), then strcpy *)
construct_string(s, size) == string_(IF size # 0 THEN size ELSE Len(s), s)

(* value::operator=(const element&) and operator=(const value&): the value *)
(* the target holds afterwards                                             *)
RECURSIVE assign(_)
assign(e) ==
    IF e.type = JSON_STRING THEN construct_string(e.str, e.size)
    ELSE IF e.type = JSON_ARRAY THEN array_([i \in 1..e.size |-> assign(e.arr[i])])
    ELSE IF e.type = JSON_BYTE THEN byte_(e.str)
    ELSE e

(* construct_string allocates size + 1 characters and strcpy copies the   *)
(* whole C string: a longer one is written past the end of the buffer     *)
RECURSIVE overruns(_)
overruns(e) ==
    \/ e.type = JSON_STRING /\ e.size # 0 /\ Len(e.str) > e.size
    \/ e.type = JSON_ARRAY /\ \E i \in 1..e.size : overruns(e.arr[i])

(* An assignment of e to memory that was never constructed: the String,   *)
(* Array and Byte branches open with delete_value() on the target, which  *)
(* frees an indeterminate pointer when the indeterminate tag is an owning *)
(* one.  The default branch writes tag and data without reading anything. *)
frees_garbage(e, tag) == e.type \in Owning /\ tag \in Owning

Done(val, old) == [status |-> "ok", v |-> val, old |-> old]
Fault(old) == [status |-> "fault", v |-> old, old |-> old]

(* value::push_back_array(const json::element&) on *this = val *)
push_back_array(val, e, tag) ==
    IF overruns(e) \/ overruns(val) THEN Fault(val)
    ELSE IF val.type = JSON_UNDEFINED THEN
        (* construct_array(1); operator[](0) = element *)
        Done(array_(<< assign(e) >>), val)
    ELSE IF val.type # JSON_ARRAY THEN
        (* value this_ copied from this: the copy constructor assigns to this_,  *)
        (* which nothing has constructed                                        *)
        IF frees_garbage(val, tag) THEN Fault(val)
        ELSE Done(array_(<< assign(val), assign(e) >>), val)
    ELSE
        (* realloc; operator[](size) = element on the new slot; ++size *)
        IF frees_garbage(e, tag) THEN Fault(val)
        ELSE Done(array_(Append(val.arr, assign(e))), val)

(* value::push_back_array(const array&) on *this = val *)
push_back_array_view(val, view, tag) ==
    IF overruns(view) \/ overruns(val) THEN Fault(val)
    ELSE IF val.type = JSON_UNDEFINED THEN
        (* operator=(array) *)
        Done(assign(view), val)
    ELSE IF val.type # JSON_ARRAY /\ frees_garbage(val, tag) THEN Fault(val)
    ELSE IF \E i \in 1..view.size : frees_garbage(view.arr[i], tag) THEN Fault(val)
    ELSE
        LET base == IF val.type # JSON_ARRAY THEN << assign(val) >> ELSE val.arr
        IN  Done(array_(base \o assign(view).arr), val)

-----------------------------------------------------------------------------
(* The values appended to and the elements appended *)

PushItems == { Number(0), String(<<"a">>), Null }

PushValues ==
    { Undefined, Null, True, False, Number(0), Number(1), Object(1),
      String(<<>>), String(<<"a">>), byte_(<<"a">>), Scalar(JSON_INT32, 1),
      Scalar(JSON_INT64, 1), Scalar(JSON_DATE, 1) }
    \cup { array_(s) : s \in SeqsUpTo(PushItems, MaxArrayLen) }

PushArguments ==
    PushValues \cup { array_(<< array_(<< Number(1) >>) >>), string_(0, <<"b">>) }

NoPush == [status |-> "none", v |-> Undefined, old |-> Undefined]

InitPush ==
    /\ op = "start"
    /\ v \in PushValues
    /\ a \in PushArguments
    /\ b = Undefined
    /\ o = {}
    /\ is = NoStream
    /\ garbage \in { [c |-> " ", tag |-> t] : t \in Tags }
    /\ ret = NoPush
    /\ mem = NoMemory

(* v.push_back(a), a taken as one element *)
PushBackElement ==
    /\ op = "start"
    /\ op' = "push_back"
    /\ ret' = push_back_array(v, a, garbage.tag)
    /\ v' = ret'.v
    /\ UNCHANGED <<a, b, o, is, garbage, mem>>

(* v.push_back(a.data.array), the elements of the array a appended *)
PushBackArray ==
    /\ op = "start"
    /\ a.type = JSON_ARRAY
    /\ op' = "push_back_array"
    /\ ret' = push_back_array_view(v, a, garbage.tag)
    /\ v' = ret'.v
    /\ UNCHANGED <<a, b, o, is, garbage, mem>>

NextPush == PushBackElement \/ PushBackArray

SpecPush == InitPush /\ [][NextPush]_vars

-----------------------------------------------------------------------------
(* Claims on append *)

(* C4 as stated: push_back(e) on a value that is neither an Array nor     *)
(* Undefined completes and leaves an Array of length 2 whose element 0    *)
(* == the old value and whose element 1 == e.                             *)
C4_ScalarCoercion ==
    (op = "push_back" /\ ret.old.type \notin {JSON_ARRAY, JSON_UNDEFINED})
        => /\ ret.status = "ok"
           /\ v.type = JSON_ARRAY
           /\ v.size = 2
           /\ eq_element(v.arr[1], ret.old)
           /\ eq_element(v.arr[2], a)

(* C5 as stated: push_back on an Array of length n completes, the length  *)
(* becomes n + 1 (n + k for an array of k elements) and every element     *)
(* below n == the element that was there.                                 *)
C5_AppendMonotonic ==
    (op \in {"push_back", "push_back_array"} /\ ret.old.type = JSON_ARRAY)
        => /\ ret.status = "ok"
           /\ v.type = JSON_ARRAY
           /\ v.size = ret.old.size + (IF op = "push_back" THEN 1 ELSE a.size)
           /\ \A i \in 1..ret.old.size : eq_element(v.arr[i], ret.old.arr[i])

(* C18 as stated: push_back of an array of N elements on an Undefined     *)
(* value completes and leaves an Array of exactly those N elements in     *)
(* order; on a value that is neither an Array nor Undefined it completes  *)
(* and leaves an Array of length 1 + N, the old value at element 0 and    *)
(* the N elements after it in order.                                      *)
C18_AppendArray ==
    /\ (op = "push_back_array" /\ ret.old.type = JSON_UNDEFINED)
           => /\ ret.status = "ok"
              /\ v = array_(assign(a).arr)
    /\ (op = "push_back_array" /\ ret.old.type \notin {JSON_ARRAY, JSON_UNDEFINED})
           => /\ ret.status = "ok"
              /\ v = array_(<< assign(ret.old) >> \o assign(a).arr)

-----------------------------------------------------------------------------
(* std::istream: the buffer, the position of the next character and the    *)
(* fail bit.  Every extraction is a formatted one with skipws set.         *)

stream(text) == [buf |-> text, pos |-> 1, fail |-> FALSE]

RECURSIVE skipws(_, _)
skipws(buf, p) ==
    IF p <= Len(buf) /\ IsSpace(buf[p]) THEN skipws(buf, p + 1) ELSE p

(* is >> c: at the end of the stream the fail bit is set and c keeps the   *)
(* value it had, which is indeterminate when c was never written           *)
extract(st, c) ==
    IF st.fail THEN [is |-> st, c |-> c]
    ELSE LET p == skipws(st.buf, st.pos)
         IN  IF p > Len(st.buf)
             THEN [is |-> [st EXCEPT !.pos = p, !.fail = TRUE], c |-> c]
             ELSE [is |-> [st EXCEPT !.pos = p + 1], c |-> st.buf[p]]

(* is.putback(c) of the character read last: refused once the stream failed *)
putback(st) ==
    IF st.fail THEN st ELSE [st EXCEPT !.pos = st.pos - 1]

RECURSIVE span_digits(_, _)
span_digits(buf, p) ==
    IF p <= Len(buf) /\ IsDigit(buf[p]) THEN span_digits(buf, p + 1) ELSE p

RECURSIVE to_int_from(_, _)
to_int_from(ds, acc) ==
    IF ds = <<>> THEN acc ELSE to_int_from(Tail(ds), 10 * acc + DigitVal(Head(ds)))

to_int(ds) == to_int_from(ds, 0)

RECURSIVE Pow10(_)
Pow10(n) == IF n = 0 THEN 1 ELSE 10 * Pow10(n - 1)

(* x evaluated once and handed to F *)
Bind(x, F(_)) == CHOOSE y \in { F(r) : r \in {x} } : TRUE

Scanned(st, p, ok, modelled, val) ==
    [is |-> [st EXCEPT !.pos = p, !.fail = ~ok], ok |-> ok, modelled |-> modelled, val |-> val]

(* the conversion of the text scanned: sign at p0, digits from p1 to p2,   *)
(* fraction digits up to p3, exponent digits from p4 to p5                 *)
convert_double(st, p0, p1, p2, p3, p4, p5) ==
    LET buf == st.buf
        int_ds == SubSeq(buf, p1, p2 - 1)
        frac_ds == IF p3 > p2 THEN SubSeq(buf, p2 + 1, p3 - 1) ELSE <<>>
        exp_ds == SubSeq(buf, p4, p5 - 1)
        good == int_ds \o frac_ds # <<>> /\ (p4 > p3 => exp_ds # <<>>)
        negative == p1 > p0 /\ buf[p0] = "-"
        eneg == p4 > p3 + 1 /\ buf[p3 + 1] = "-"
    IN  IF ~good THEN Scanned(st, p5, FALSE, TRUE, 0)
        ELSE Bind(<< to_int(int_ds \o frac_ds), Len(frac_ds), to_int(exp_ds) >>,
                  LAMBDA n :
                      LET m == n[1]
                          up == IF eneg THEN 0 ELSE n[3]
                          down == IF eneg THEN n[2] + n[3] ELSE n[2]
                      IN  IF m = 0 THEN Scanned(st, p5, TRUE, TRUE, 0)
                          ELSE IF up >= down
                          THEN Scanned(st, p5, TRUE, ~negative, m * Pow10(up - down))
                          ELSE Scanned(st, p5, TRUE,
                                       ~negative /\ m % Pow10(down - up) = 0,
                                       m \div Pow10(down - up)))

(* the exponent: e, a sign, digits; taken only after a mantissa digit *)
scan_exponent(st, p0, p1, p2, p3) ==
    LET buf == st.buf
        expo == (p2 > p1 \/ p3 > p2 + 1) /\ p3 <= Len(buf) /\ buf[p3] = "e"
        esigned == expo /\ p3 + 1 <= Len(buf) /\ buf[p3 + 1] \in {"+", "-"}
        p4 == IF expo THEN (IF esigned THEN p3 + 2 ELSE p3 + 1) ELSE p3
    IN  Bind(IF expo THEN span_digits(buf, p4) ELSE p3,
             LAMBDA p5 : convert_double(st, p0, p1, p2, p3, p4, p5))

(* the mantissa: digits, a point, digits *)
scan_mantissa(st, p0, p1) ==
    Bind(span_digits(st.buf, p1),
         LAMBDA p2 :
             Bind(IF p2 <= Len(st.buf) /\ st.buf[p2] = "."
                  THEN span_digits(st.buf, p2 + 1) ELSE p2,
                  LAMBDA p3 : scan_exponent(st, p0, p1, p2, p3)))

(* is >> v.data.number: the longest text of the form                      *)
(*   [+-] digits [. digits] [e [+-] digits]                               *)
(* is taken from the stream; it converts when the mantissa has a digit    *)
(* and an exponent, if begun, has one; otherwise the fail bit is set.     *)
(* The doubles of the model are the naturals: a literal that is negative  *)
(* or has a fraction that does not vanish is reported as outside the      *)
(* model (modelled = FALSE).                                              *)
scan_double(st) ==
    IF st.fail THEN [is |-> st, ok |-> FALSE, modelled |-> TRUE, val |-> 0]
    ELSE Bind(skipws(st.buf, st.pos),
              LAMBDA p0 :
                  IF p0 > Len(st.buf) THEN Scanned(st, p0, FALSE, TRUE, 0)
                  ELSE scan_mantissa(st, p0,
                                     IF st.buf[p0] \in {"+", "-"} THEN p0 + 1 ELSE p0))

-----------------------------------------------------------------------------
(* namespace parse.  A reader returns the stream it leaves, its value and  *)
(* how it ended:                                                           *)
(*   ok        it returned                                                 *)
(*   assert    an ensure() failed: the fatal parse failure                 *)
(*   hang      a loop that no longer reads anything never ends             *)
(*   overflow  a recursion that no longer reads anything never ends        *)
(*   fault     delete_value() freed an indeterminate pointer               *)
(*   outside   a number outside the doubles of the model                   *)
(* g is what the uninitialised locals hold: g.c the characters, g.tag the  *)
(* tag of a value nothing has constructed.  A value returned by value is   *)
(* taken to be built in place (copy elision).                              *)

Result(status, val, st) == [status |-> status, v |-> val, is |-> st]

(* bool eat(char c, std::istream& is): c_ starts uninitialised *)
eat(c, st, g) ==
    Bind(extract(st, g.c), LAMBDA x : [is |-> x.is, ok |-> x.c = c])

(* ensure (eat(w[1], is)); ensure (eat(w[2], is)); ... *)
RECURSIVE ensure_eat(_, _, _)
ensure_eat(w, st, g) ==
    IF w = <<>> THEN [is |-> st, ok |-> TRUE]
    ELSE Bind(eat(Head(w), st, g),
              LAMBDA x : IF x.ok THEN ensure_eat(Tail(w), x.is, g) ELSE x)

IsQuote(c) == c = "\"" \/ c = "'"

(* the loop of read_string after an extraction into c: the test, then   *)
(* s += c and the next extraction.  Once the stream has failed c never   *)
(* changes again and s grows for ever.                                   *)
RECURSIVE read_string_loop(_, _, _)
read_string_loop(st, c, str) ==
    IF IsQuote(c) THEN [status |-> "ok", s |-> str, is |-> st]
    ELSE IF st.fail THEN [status |-> "hang", s |-> str, is |-> st]
    ELSE Bind(<< extract(st, c), Append(str, c) >>,
              LAMBDA x : read_string_loop(x[1].is, x[1].c, x[2]))

(* std::string read_string(std::istream& is): c starts uninitialised *)
read_string(st, g) ==
    Bind(extract(st, g.c), LAMBDA x : read_string_loop(x.is, x.c, <<>>))

RECURSIVE read_value(_, _)

(* one turn of the loop of read_array, a = r.v the value read_value gave *)
RECURSIVE read_array_loop(_, _, _)
read_array_turn(st, val, g, r) ==
    IF r.status # "ok" THEN Result(r.status, val, r.is)
    ELSE IF r.v.type = JSON_UNDEFINED THEN Result("ok", val, r.is)
    ELSE IF st.fail
    THEN (* nothing was read: every further turn appends the same value *)
         Result(IF frees_garbage(r.v, g.tag) THEN "fault" ELSE "hang", val, r.is)
    ELSE Bind(push_back_array(val, r.v, g.tag),
              LAMBDA pushed :
                  IF pushed.status # "ok" THEN Result("fault", val, r.is)
                  ELSE read_array_loop(r.is, pushed.v, g))

(* while (json::value a = read_value(is)) v.push_back(a) *)
read_array_loop(st, val, g) ==
    Bind(read_value(st, g), LAMBDA r : read_array_turn(st, val, g, r))

(* json::value read_array(std::istream& is) *)
read_array(st, g) == read_array_loop(st, Undefined, g)

(* read_value once c holds the character that opens the value *)
read_value_of(c, st, g) ==
    IF c = "[" THEN
        Bind(read_array(st, g),
             LAMBDA r : Result(r.status,
                               IF r.status = "ok" THEN assign(r.v) ELSE Undefined, r.is))
    ELSE IF IsQuote(c) THEN
        Bind(read_string(st, g),
             LAMBDA r : Result(r.status,
                               IF r.status = "ok" THEN String(r.s) ELSE Undefined, r.is))
    ELSE IF c = "f" THEN
        Bind(ensure_eat(<< "a", "l", "s", "e" >>, st, g),
             LAMBDA r : IF r.ok THEN Result("ok", False, r.is)
                        ELSE Result("assert", Undefined, r.is))
    ELSE IF c = "t" THEN
        Bind(ensure_eat(<< "r", "u", "e" >>, st, g),
             LAMBDA r : IF r.ok THEN Result("ok", True, r.is)
                        ELSE Result("assert", Undefined, r.is))
    ELSE IF c = "n" THEN
        Bind(ensure_eat(<< "u", "l", "l" >>, st, g),
             LAMBDA r : IF r.ok THEN Result("ok", Null, r.is)
                        ELSE Result("assert", Undefined, r.is))
    ELSE
        Bind(scan_double(putback(st)),
             LAMBDA r : IF ~r.ok THEN Result("assert", Undefined, r.is)
                        ELSE IF ~r.modelled THEN Result("outside", Undefined, r.is)
                        ELSE Result("ok", Number(r.val), r.is))

(* json::value read_value(std::istream& is): c starts uninitialised *)
read_value(st, g) ==
    IF st.fail /\ g.c = "["
    THEN (* c is an opening bracket in every nested call and none reads anything *)
         Result("overflow", Undefined, st)
    ELSE Bind(extract(st, g.c),
              LAMBDA x1 :
                  IF x1.c = "]" \/ x1.c = "}" THEN Result("ok", Undefined, x1.is)
                  ELSE IF x1.c = ","
                  THEN Bind(extract(x1.is, x1.c),
                            LAMBDA x2 : read_value_of(x2.c, x2.is, g))
                  ELSE read_value_of(x1.c, x1.is, g))

(* std::string read_key(std::istream& is) *)
read_key(st, g) ==
    Bind(read_string(st, g),
         LAMBDA r :
             IF r.status # "ok" THEN r
             ELSE Bind(eat(":", r.is, g),
                       LAMBDA x : [status |-> IF x.ok THEN "ok" ELSE "assert",
                                   s |-> r.s, is |-> x.is]))

Pair(status, more, kv, st) == [status |-> status, more |-> more, kv |-> kv, is |-> st]

(* read_pair from kv.first = read_key(is) on *)
read_pair_of(st, kv, g) ==
    Bind(read_key(st, g),
         LAMBDA k :
             IF k.status # "ok" THEN Pair(k.status, FALSE, kv, k.is)
             ELSE Bind(read_value(k.is, g),
                       LAMBDA r :
                           IF r.status # "ok"
                           THEN Pair(r.status, FALSE, [kv EXCEPT !.first = k.s], r.is)
                           ELSE Pair("ok", TRUE,
                                     [first |-> k.s, second |-> assign(r.v)], r.is)))

(* bool read_pair(std::istream& is, std::pair<std::string,json::value>& kv) *)
read_pair(st, kv, g) ==
    Bind(extract(st, g.c),
         LAMBDA x :
             IF x.c = "}" THEN Pair("ok", FALSE, kv, x.is)
             ELSE IF ~IsQuote(x.c) THEN Pair("assert", FALSE, kv, x.is)
             ELSE read_pair_of(x.is, kv, g))

(* std::map::insert(kv): nothing happens when the key is there; otherwise  *)
(* a node is allocated and the pair copy-constructed into it               *)
insert(obj, kv) ==
    IF \E q \in obj : q.first = kv.first THEN obj ELSE obj \cup {kv}

Members(status, obj, st) == [status |-> status, o |-> obj, is |-> st]

(* the loop of read_members: while (read_pair(is, kv)) o.insert(kv) *)
RECURSIVE read_members_loop(_, _, _, _)
read_members_loop(st, obj, kv, g) ==
    Bind(read_pair(st, kv, g),
         LAMBDA r :
             IF r.status # "ok" THEN Members(r.status, obj, r.is)
             ELSE IF ~r.more THEN Members("ok", obj, r.is)
             ELSE IF (\A q \in obj : q.first # r.kv.first)
                     /\ frees_garbage(r.kv.second, g.tag)
             THEN Members("fault", obj, r.is)
             ELSE Bind(insert(obj, r.kv),
                       LAMBDA grown : read_members_loop(r.is, grown, r.kv, g)))

(* object read_members(std::istream& is) *)
read_members(st, g) ==
    read_members_loop(st, {}, [first |-> <<>>, second |-> Undefined], g)

(* object read_object(std::istream& is) *)
read_object(st, g) ==
    Bind(eat("{", st, g),
         LAMBDA x : IF ~x.ok THEN Members("assert", {}, x.is)
                    ELSE read_members(x.is, g))

-----------------------------------------------------------------------------
(* The writers *)

RECURSIVE to_digits(_)
to_digits(n) ==
    IF n < 10 THEN << Digits[n + 1] >>
    ELSE Append(to_digits(n \div 10), Digits[(n % 10) + 1])

RECURSIVE strip_zeros(_)
strip_zeros(ds) ==
    IF ds # <<>> /\ ds[Len(ds)] = "0" THEN strip_zeros(SubSeq(ds, 1, Len(ds) - 1))
    ELSE ds

(* the precision an ostream starts with *)
Precision == 6

(* os << double at the default precision and float field: six significant *)
(* digits, in fixed notation below 10^6 and in scientific notation from   *)
(* there on, trailing zeros dropped                                        *)
format_double(n) ==
    IF n = NaN THEN << "n", "a", "n" >>
    ELSE IF n < Pow10(Precision) THEN to_digits(n)
    ELSE
    LET x == Len(to_digits(n)) - 1
        unit == Pow10(x - (Precision - 1))
        q == n \div unit
        r == n % unit
        m0 == IF 2 * r > unit \/ (2 * r = unit /\ q % 2 = 1) THEN q + 1 ELSE q
        carry == m0 = Pow10(Precision)
        m == IF carry THEN m0 \div 10 ELSE m0
        ex == IF carry THEN x + 1 ELSE x
        ds == to_digits(m)
        frac == strip_zeros(Tail(ds))
        exds == IF ex < 10 THEN << "0" >> \o to_digits(ex) ELSE to_digits(ex)
    IN  << Head(ds) >> \o (IF frac = <<>> THEN <<>> ELSE << "." >> \o frac)
            \o << "e", "+" >> \o exds

(* os << a pointer *)
format_pointer(ptr) == << "0", "x" >> \o to_digits(ptr)

RECURSIVE serialize(_)

(* for (i = 0; i < size; ++i) { if (i) os << ','; os << v[i]; } *)
RECURSIVE serialize_items(_)
serialize_items(elems) ==
    IF elems = <<>> THEN <<>>
    ELSE IF Len(elems) = 1 THEN serialize(elems[1])
    ELSE serialize(Head(elems)) \o << "," >> \o serialize_items(Tail(elems))

(* std::ostream& operator<<(std::ostream& os, const json::value& v) *)
serialize(val) ==
    IF val.type = JSON_STRING THEN << "\"" >> \o val.str \o << "\"" >>
    ELSE IF val.type = JSON_NUMBER THEN format_double(val.num)
    ELSE IF val.type = JSON_OBJECT THEN << "(" >> \o format_pointer(val.num) \o << ")" >>
    ELSE IF val.type = JSON_ARRAY THEN << "[" >> \o serialize_items(val.arr) \o << "]" >>
    ELSE IF val.type = JSON_TRUE THEN << "t", "r", "u", "e" >>
    ELSE IF val.type = JSON_FALSE THEN << "f", "a", "l", "s", "e" >>
    ELSE IF val.type = JSON_NULL THEN << "n", "u", "l", "l" >>
    ELSE IF val.type = JSON_BYTE THEN val.str
    ELSE IF val.type \in {JSON_INT32, JSON_INT64, JSON_DATE} THEN to_digits(val.num)
    ELSE << "*", "u", "n", "d", "e", "f", "i", "n", "e", "d", "*" >>

(* the pair of obj with the least key: std::map iterates in key order *)
least_pair(obj) ==
    CHOOSE q \in obj : \A w \in obj : w = q \/ strcmp(q.first, w.first) < 0

RECURSIVE serialize_pairs(_)
serialize_pairs(obj) ==
    IF obj = {} THEN <<>>
    ELSE LET q == least_pair(obj)
             rest == obj \ {q}
         IN  << "\"" >> \o q.first \o << "\"", ":" >> \o serialize(q.second)
                 \o (IF rest = {} THEN <<>> ELSE << "," >> \o serialize_pairs(rest))

(* std::ostream& operator<<(std::ostream& os, const json::object& o) *)
serialize_object(obj) == << "{" >> \o serialize_pairs(obj) \o << "}" >>

-----------------------------------------------------------------------------
(* Reading *)

NoRead == [status |-> "none", v |-> Undefined, o |-> {}]

(* what uninitialised memory is taken to hold *)
Garbage ==
    { [c |-> ch, tag |-> t] : ch \in {"e", "l", "x", "\"", "]", "["},
                              t \in {JSON_STRING, JSON_UNDEFINED} }

(* is >> v: std::istream& operator>>(std::istream& is, json::value& v) *)
ReadValue ==
    /\ op \in {"text", "written_value"}
    /\ LET r == read_value(is, garbage)
       IN  /\ ret' = [status |-> r.status, v |-> r.v, o |-> {}]
           /\ is' = r.is
    /\ op' = "read_value"
    /\ UNCHANGED <<a, b, v, o, garbage, mem>>

(* is >> o: std::istream& operator>>(std::istream& is, json::object& o) *)
ReadObject ==
    /\ op \in {"text", "written_object"}
    /\ LET r == read_object(is, garbage)
       IN  /\ ret' = [status |-> r.status, v |-> Undefined, o |-> r.o]
           /\ is' = r.is
    /\ op' = "read_object"
    /\ UNCHANGED <<a, b, v, o, garbage, mem>>

(* os << v, the text then offered as the stream to read *)
WriteValue ==
    /\ op = "value"
    /\ is' = stream(serialize(v))
    /\ op' = "written_value"
    /\ UNCHANGED <<a, b, v, o, garbage, ret, mem>>

(* os << o, the text then offered as the stream to read *)
WriteObject ==
    /\ op = "object"
    /\ is' = stream(serialize_object(o))
    /\ op' = "written_object"
    /\ UNCHANGED <<a, b, v, o, garbage, ret, mem>>

-----------------------------------------------------------------------------
(* Writing a value or an object and reading the text back *)

WrittenStrings == { String(s) : s \in SeqsUpTo({"a", " "}, MaxStrLen) }

WrittenScalars == { Number(0), Number(12), Number(1234567), True, False, Null }

WrittenItems ==
    { Number(1), Number(2), String(<<"a">>), True, Null,
      array_(<<>>), array_(<< Number(1) >>), array_(<< True, False >>) }

WrittenArrays == { array_(s) : s \in SeqsUpTo(WrittenItems, MaxArrayLen) }

WrittenValues == WrittenStrings \cup WrittenScalars \cup WrittenArrays

MaxPairs == 3

Keys == { << "a" >>, << "b" >>, << "c" >>, << "a", "b" >> }

PairValues == { Number(1), True, String(<<"a">>), array_(<< True, False >>) }

(* the objects of at most MaxPairs pairs: a value for each key of a set *)
WrittenObjects ==
    UNION { { { [first |-> k, second |-> f[k]] : k \in ks } : f \in [ks -> PairValues] } :
            ks \in { x \in SUBSET Keys : Cardinality(x) <= MaxPairs } }

InitRoundTrip ==
    /\ \/ op = "value" /\ v \in WrittenValues /\ o = {}
       \/ op = "object" /\ v = Undefined /\ o \in WrittenObjects
    /\ a = Undefined
    /\ b = Undefined
    /\ is = NoStream
    /\ garbage \in Garbage
    /\ ret = NoRead
    /\ mem = NoMemory

NextRoundTrip == WriteValue \/ WriteObject \/ ReadValue \/ ReadObject

SpecRoundTrip == InitRoundTrip /\ [][NextRoundTrip]_vars

(* the value read from the text of val standing alone *)
parsed_alone(val) == read_value(stream(serialize(val)), garbage).v

(* C1 as stated: reading the text of an object of n >= 2 pairs with        *)
(* distinct keys completes without a parse failure and yields a mapping    *)
(* of exactly those n keys, each mapped to the value parsed from its pair. *)
C1_ObjectOfPairsParses ==
    (op = "read_object" /\ Cardinality(o) >= 2)
        => /\ ret.status = "ok"
           /\ ret.o = { [first |-> q.first, second |-> parsed_alone(q.second)] : q \in o }

(* C2 as stated: reading the text of an array of n values yields an Array  *)
(* of length n whose i-th element is the value parsed from the i-th item,  *)
(* and the reader stops right after the closing bracket of the array.      *)
C2_ArrayParses ==
    (op = "read_value" /\ v.type = JSON_ARRAY)
        => /\ ret.status = "ok"
           /\ ret.v.type = JSON_ARRAY
           /\ ret.v.size = v.size
           /\ \A i \in 1..v.size : ret.v.arr[i] = parsed_alone(v.arr[i])
           /\ is.pos = Len(is.buf) + 1
           /\ ~is.fail

(* C3 as stated: reading the text written for a value built from String,  *)
(* Number, Array, True, False and Null nodes yields a value == to it.      *)
C3_RoundTrip ==
    op = "read_value" => (ret.status = "ok" /\ eq_element(ret.v, v))

(* the first character of the text that is not whitespace, if any *)
first_token(buf) ==
    LET p == skipws(buf, 1) IN IF p <= Len(buf) THEN << buf[p] >> ELSE <<>>

(* C15 as stated: the value-reader yields Undefined only when the first   *)
(* character it reads is a closing bracket or brace, never after a        *)
(* well-formed value; so the text of an array is read to its own closing  *)
(* bracket, no item ending the array early.                               *)
C15_UndefinedOnlyAtCloser ==
    /\ (op = "read_value" /\ ret.status = "ok" /\ ret.v.type = JSON_UNDEFINED)
           => first_token(is.buf) \in { << "]" >>, << "}" >> }
    /\ (op = "read_value" /\ ret.status = "ok" /\ v.type = JSON_ARRAY)
           => is.pos = Len(is.buf) + 1

-----------------------------------------------------------------------------
(* Reading a given text *)

MaxContentLen == 2

Quotes == {"\"", "'"}

(* a quote, characters without that quote, the same quote *)
StringLiterals ==
    UNION { { << q >> \o s \o << q >> :
              s \in SeqsUpTo({"a", " ", "\\", "\"", "'"} \ {q}, MaxContentLen) } :
            q \in Quotes }

Keywords == { << "t", "r", "u", "e" >>, << "f", "a", "l", "s", "e" >>, << "n", "u", "l", "l" >> }

(* the keywords, cut short or with one character replaced *)
KeywordTexts ==
    UNION { { SubSeq(w, 1, k) : k \in 1..Len(w) }
            \cup { [w EXCEPT ![i] = "x"] : i \in 2..Len(w) } : w \in Keywords }

Trailers == { <<>>, << " " >>, << "]" >>, << ",", "1" >> }

(* object texts with the key a in two pairs: with and without the comma *)
DuplicateKeyTexts ==
    { << "{", "\"", "a", "\"", ":", "1", ",", "\"", "a", "\"", ":", "2", "}" >>,
      << "{", "\"", "a", "\"", ":", "1", " ", "\"", "a", "\"", ":", "2", "}" >> }

OtherTexts ==
    { <<>>, << "{", "}" >>, << "{", "\"", "a", "\"", ":", "1", "}" >>,
      << "[", "1", ",", "2", "]" >>, << "1", ".", "5" >>, << "-", "1" >>,
      << "[", "\"", "a" >>, << "[", "1" >>, << "\"", "a" >>,
      << "{", "\"", "a" >> }
    \cup DuplicateKeyTexts

Texts ==
    { t \o x : t \in StringLiterals \cup KeywordTexts, x \in Trailers } \cup OtherTexts

InitParse ==
    /\ op = "text"
    /\ is \in { stream(t) : t \in Texts }
    /\ garbage \in Garbage
    /\ a = Undefined
    /\ b = Undefined
    /\ v = Undefined
    /\ o = {}
    /\ ret = NoRead
    /\ mem = NoMemory

NextParse == ReadValue \/ ReadObject

SpecParse == InitParse /\ [][NextParse]_vars

(* the text opens with a string literal: a quote and, later, the same quote *)
OpensWithLiteral(buf) ==
    /\ Len(buf) >= 2
    /\ IsQuote(buf[1])
    /\ \E i \in 2..Len(buf) : buf[i] = buf[1]

(* the characters between the opening quote and its next occurrence *)
LiteralContent(buf) ==
    LET close == CHOOSE i \in 2..Len(buf) :
                     buf[i] = buf[1] /\ \A j \in 2..(i - 1) : buf[j] # buf[1]
    IN  SubSeq(buf, 2, close - 1)

(* C9 as stated: a string literal opened with the quote q is read as       *)
(* exactly the characters between that q and the next q, every character   *)
(* kept: whitespace, backslashes and the other quote.                      *)
C9_StringVerbatim ==
    (op = "read_value" /\ OpensWithLiteral(is.buf))
        => /\ ret.status = "ok"
           /\ ret.v = String(LiteralContent(is.buf))

StartsWith(buf, w) == Len(buf) >= Len(w) /\ SubSeq(buf, 1, Len(w)) = w

(* the text starts with t, f or n and does not go on as true, false, null *)
BrokenKeyword(buf) ==
    /\ buf # <<>>
    /\ buf[1] \in {"t", "f", "n"}
    /\ \A w \in Keywords : ~StartsWith(buf, w)

(* C10 as stated: a keyword cut short or mismatched always ends in the     *)
(* fatal parse failure; no value is returned for it.                       *)
C10_BrokenKeywordFails ==
    (op = "read_value" /\ BrokenKeyword(is.buf)) => ret.status = "assert"

buf_opens_value(buf) == IsQuote(buf[1]) \/ buf[1] = "["

(* the text opens a string literal, a key or an array and ends before the *)
(* quote or bracket that closes it                                        *)
Unclosed(buf) ==
    /\ buf # <<>>
    /\ \/ IsQuote(buf[1]) /\ \A i \in 2..Len(buf) : ~IsQuote(buf[i])
       \/ buf[1] = "[" /\ \A i \in 2..Len(buf) : buf[i] # "]"
       \/ /\ Len(buf) >= 2 /\ buf[1] = "{" /\ IsQuote(buf[2])
          /\ \A i \in 3..Len(buf) : ~IsQuote(buf[i])

(* C17 as stated: every parse of a finite text ends, with a complete      *)
(* value or with the fatal parse failure; a literal or key without its    *)
(* closing quote and an array without its closing bracket end in the      *)
(* failure, not in an endless read and not in a value.                    *)
C17_FailFast ==
    /\ op \in {"read_value", "read_object"} => ret.status \notin {"hang", "overflow"}
    /\ (op = "read_value" /\ Unclosed(is.buf) /\ buf_opens_value(is.buf))
           => ret.status # "ok"
    /\ (op = "read_object" /\ Unclosed(is.buf) /\ is.buf[1] = "{")
           => ret.status # "ok"

(* C19 as stated: an object text with the key a in two pairs is read to a *)
(* mapping with one entry for a, holding the value of the first pair.     *)
C19_FirstKeyWins ==
    (op = "read_object" /\ is.buf \in DuplicateKeyTexts)
        => /\ ret.status = "ok"
           /\ ret.o = { [first |-> << "a" >>, second |-> Number(1)] }

-----------------------------------------------------------------------------
(* class value on a memory: the objects on the stack, the buffers on the   *)
(* heap.  A cell is the bits of one element: the tag, the size and the     *)
(* pointer of data.string / data.array / data.byte, the scalar of the      *)
(* other members, and whether anything has written the tag.  A buffer is   *)
(* what new[] or malloc gave: characters or cells.  Addresses are not      *)
(* reused.  Address 0 is a C string the caller owns, -1 a pointer into     *)
(* nothing.                                                                *)

MaxBuffers == 5
MaxOps == 4

Names == {"x", "y"}
Objects == Names \cup {"this_"}
Addresses == 1..MaxBuffers

cell(type, size, num, ptr, init) ==
    [type |-> type, size |-> size, num |-> num, ptr |-> ptr, init |-> init]

Buffer(state, by, chars, cap, slots) ==
    [state |-> state, by |-> by, chars |-> chars, cap |-> cap, slots |-> slots]

Unused == Buffer("unused", "value", <<>>, 0, <<>>)

(* the places a cell is at: an object on the stack, a slot of an array    *)
(* buffer, an element the caller passes                                   *)
OnStack(n) == [at |-> "stack", name |-> n, buf |-> 0, idx |-> 0, cell |-> <<>>]
InBuffer(p, i) == [at |-> "heap", name |-> "", buf |-> p, idx |-> i, cell |-> <<>>]
Passed(c) == [at |-> "arg", name |-> "", buf |-> 0, idx |-> 0, cell |-> c]

(* the program stops: a fault of the memory, or no memory left *)
raise(M, event) == [M EXCEPT !.status = "fault", !.events = @ \cup {event}]
note(M, event) == [M EXCEPT !.events = @ \cup {event}]

Then(M, F(_)) ==
    CHOOSE y \in { IF m.status # "ok" THEN m ELSE F(m) : m \in {M} } : TRUE

live_buffer(M, p) == p \in 0..MaxBuffers /\ M.heap[p].state = "live"

(* the cell at loc can be read and written: it is not in freed memory *)
readable(M, loc) ==
    loc.at = "heap" => (live_buffer(M, loc.buf) /\ loc.idx \in 1..Len(M.heap[loc.buf].slots))

load(M, loc) ==
    IF loc.at = "stack" THEN M.stack[loc.name]
    ELSE IF loc.at = "heap" THEN M.heap[loc.buf].slots[loc.idx]
    ELSE loc.cell

store(M, loc, c) ==
    IF loc.at = "stack" THEN [M EXCEPT !.stack[loc.name] = c]
    ELSE [M EXCEPT !.heap[loc.buf].slots[loc.idx] = c]

fresh(M) == { p \in Addresses : M.heap[p].state = "unused" }

(* new[] and malloc: the address of the buffer allocated next *)
next_address(M) == CHOOSE p \in fresh(M) : \A q \in fresh(M) : p <= q

allocate(M, buffer) ==
    IF fresh(M) = {} THEN [M EXCEPT !.status = "exhausted"]
    ELSE [M EXCEPT !.heap[next_address(M)] = buffer]

(* delete [] p and free(p) *)
free(M, p) ==
    IF p \notin Addresses \/ M.heap[p].state = "unused" THEN raise(M, "wild_free")
    ELSE IF M.heap[p].state = "freed" THEN raise(M, "double_free")
    ELSE [M EXCEPT !.heap[p].state = "freed"]

(* value::delete_value, with delete_string, delete_array and delete_byte. *)
(* The switch reads the tag whether or not anything has written it.       *)
RECURSIVE delete_value(_, _), delete_slots(_, _, _)

(* for (i = 0; i < data.array.size; ++i) operator[](i).delete_value() *)
delete_slots(M, loc, i) ==
    IF M.status # "ok" THEN M
    ELSE IF ~readable(M, loc) THEN raise(M, "use_after_free")
    ELSE IF i > load(M, loc).size THEN M
    ELSE Then(delete_value(M, InBuffer(load(M, loc).ptr, i)),
              LAMBDA m : delete_slots(m, loc, i + 1))

delete_value(M, loc) ==
    IF M.status # "ok" THEN M
    ELSE IF ~readable(M, loc) THEN raise(M, "use_after_free")
    ELSE Then(IF load(M, loc).init THEN M ELSE note(M, "uninitialised"),
              LAMBDA m0 :
                  IF load(m0, loc).type \in {JSON_STRING, JSON_BYTE}
                  THEN Then(free(m0, load(m0, loc).ptr),
                            LAMBDA m : store(m, loc, [load(m, loc) EXCEPT
                                                 !.type = JSON_UNDEFINED, !.init = TRUE]))
                  ELSE IF load(m0, loc).type = JSON_ARRAY
                  THEN Then(delete_slots(m0, loc, 1),
                            LAMBDA m1 : Then(free(m1, load(m1, loc).ptr),
                            LAMBDA m : store(m, loc, [load(m, loc) EXCEPT
                                                 !.type = JSON_UNDEFINED, !.init = TRUE])))
                  ELSE store(m0, loc, [load(m0, loc) EXCEPT
                                 !.type = JSON_UNDEFINED, !.init = TRUE]))

(* value::construct_string(s, size) on the object at loc, s the C string  *)
(* chars: new char[size + 1], then strcpy of all of s and its terminator  *)
construct_string_at(M, loc, chars, size) ==
    LET n == IF size # 0 THEN size ELSE Len(chars)
        p == next_address(M)
    IN  Then(allocate(M, Buffer("live", "value", SubSeq(chars, 1, n), n + 1, <<>>)),
             LAMBDA m :
                 IF Len(chars) > n THEN raise(m, "overrun")
                 ELSE store(m, loc, cell(JSON_STRING, n, 0, p, TRUE)))

(* value::construct_byte(n, b): new uint8_t[n], then memcpy of n bytes *)
construct_byte_at(M, loc, chars, size) ==
    LET p == next_address(M)
    IN  Then(allocate(M, Buffer("live", "value", SubSeq(chars, 1, size), size, <<>>)),
             LAMBDA m :
                 IF Len(chars) < size THEN raise(m, "overread")
                 ELSE store(m, loc, cell(JSON_BYTE, size, 0, p, TRUE)))

(* value::construct_array(n): malloc, then every slot tagged Undefined *)
construct_array(M, loc, n) ==
    LET p == next_address(M)
        slot == cell(JSON_UNDEFINED, 0, 0, M.junk.ptr, TRUE)
    IN  Then(allocate(M, Buffer("live", "value", <<>>, n, [i \in 1..n |-> slot])),
             LAMBDA m : store(m, loc, cell(JSON_ARRAY, n, 0, p, TRUE)))

RECURSIVE assign_element(_, _, _), assign_slots(_, _, _, _)

(* value::operator=(const json::string& s) and operator=(const byte& b),  *)
(* s and b the members of the cell at src: the release first, then s.data *)
(* and s.size are read                                                    *)
assign_string(M, loc, src) ==
    Then(delete_value(M, loc),
         LAMBDA m :
             IF ~readable(m, src) \/ ~live_buffer(m, load(m, src).ptr)
             THEN raise(m, "use_after_free")
             ELSE construct_string_at(m, loc, m.heap[load(m, src).ptr].chars,
                                      load(m, src).size))

assign_byte(M, loc, src) ==
    Then(delete_value(M, loc),
         LAMBDA m :
             IF ~readable(m, src) \/ ~live_buffer(m, load(m, src).ptr)
             THEN raise(m, "use_after_free")
             ELSE construct_byte_at(m, loc, m.heap[load(m, src).ptr].chars,
                                    load(m, src).size))

(* for (i = 0; i < a.size; ++i) operator[](i) = a.element[i], a the array *)
(* member of the cell at src, read again at every turn                    *)
assign_slots(M, loc, src, i) ==
    IF M.status # "ok" THEN M
    ELSE IF ~readable(M, src) \/ ~readable(M, loc) THEN raise(M, "use_after_free")
    ELSE IF i > load(M, src).size THEN M
    ELSE Then(assign_element(M, InBuffer(load(M, loc).ptr, i),
                             InBuffer(load(M, src).ptr, i)),
              LAMBDA m : assign_slots(m, loc, src, i + 1))

(* value::operator=(const array& a) *)
assign_array(M, loc, src) ==
    Then(delete_value(M, loc),
         LAMBDA m0 :
             IF ~readable(m0, src) THEN raise(m0, "use_after_free")
             ELSE Then(construct_array(m0, loc, load(m0, src).size),
                       LAMBDA m : assign_slots(m, loc, src, 1)))

(* value::operator=(const json::element& e), e the cell at src *)
assign_element(M, loc, src) ==
    IF M.status # "ok" THEN M
    ELSE IF ~readable(M, src) \/ ~readable(M, loc) THEN raise(M, "use_after_free")
    ELSE IF load(M, src).type = JSON_STRING THEN assign_string(M, loc, src)
    ELSE IF load(M, src).type = JSON_ARRAY THEN assign_array(M, loc, src)
    ELSE IF load(M, src).type = JSON_BYTE THEN assign_byte(M, loc, src)
    ELSE store(M, loc, [load(M, src) EXCEPT !.init = TRUE])

(* value::operator=(const value& v): nothing when v is this object *)
assign_value(M, loc, src) ==
    IF loc = src THEN M ELSE assign_element(M, loc, src)

(* realloc(p, n cells): the buffer grows where it is, or its cells move   *)
(* to a new buffer and the old one is freed; the cells added hold what    *)
(* the memory held                                                        *)
realloc(M, loc, n, moved) ==
    LET c == load(M, loc)
        grown == [i \in 1..n |-> IF i <= c.size THEN M.heap[c.ptr].slots[i] ELSE M.junk]
        p == next_address(M)
    IN  IF ~live_buffer(M, c.ptr) THEN raise(M, "use_after_free")
        ELSE IF ~moved THEN [M EXCEPT !.heap[c.ptr].slots = grown, !.heap[c.ptr].cap = n]
        ELSE Then(allocate(M, Buffer("live", "value", <<>>, n, grown)),
                  LAMBDA m : store([m EXCEPT !.heap[c.ptr].state = "freed"],
                                   loc, [c EXCEPT !.ptr = p]))

(* value::push_back_array(const json::element& element) on the object at  *)
(* loc, element the cell at src                                           *)
push_back_array_at(M, loc, src, moved) ==
    IF load(M, loc).type = JSON_UNDEFINED THEN
        Then(construct_array(M, loc, 1),
             LAMBDA m : assign_element(m, InBuffer(load(m, loc).ptr, 1), src))
    ELSE IF load(M, loc).type # JSON_ARRAY THEN
        (* value this_ copied from this; ...; this_ destroyed at the brace *)
        Then(assign_value(store(M, OnStack("this_"), M.junk), OnStack("this_"), loc),
        LAMBDA m1 : Then(delete_value(m1, loc),
        LAMBDA m2 : Then(construct_array(m2, loc, 2),
        LAMBDA m3 : Then(assign_value(m3, InBuffer(load(m3, loc).ptr, 1), OnStack("this_")),
        LAMBDA m4 : Then(assign_element(m4, InBuffer(load(m4, loc).ptr, 2), src),
        LAMBDA m5 : Then(delete_value(m5, OnStack("this_")),
        LAMBDA m6 : store(m6, OnStack("this_"), m6.junk)))))))
    ELSE
        Then(realloc(M, loc, load(M, loc).size + 1, moved),
        LAMBDA m1 : Then(assign_element(m1, InBuffer(load(m1, loc).ptr, load(m1, loc).size + 1), src),
        LAMBDA m2 : store(m2, loc, [load(m2, loc) EXCEPT !.size = @ + 1])))

-----------------------------------------------------------------------------
(* The buffers a cell owns, the buffers of its array slots after its own  *)

RECURSIVE owned(_, _), owned_slots(_, _, _)

owned_slots(M, c, i) ==
    IF ~live_buffer(M, c.ptr) \/ i > c.size \/ i > Len(M.heap[c.ptr].slots) THEN <<>>
    ELSE owned(M, M.heap[c.ptr].slots[i]) \o owned_slots(M, c, i + 1)

owned(M, c) ==
    IF c.type \in {JSON_STRING, JSON_BYTE} THEN << c.ptr >>
    ELSE IF c.type = JSON_ARRAY THEN << c.ptr >> \o owned_slots(M, c, 1)
    ELSE <<>>

(* the buffers the live objects own, one entry for each owner *)
owned_by_live(M) ==
    (IF "x" \in M.alive THEN owned(M, M.stack["x"]) ELSE <<>>)
        \o (IF "y" \in M.alive THEN owned(M, M.stack["y"]) ELSE <<>>)

Range(f) == { f[i] : i \in DOMAIN f }

-----------------------------------------------------------------------------
(* Runs of constructions, assignments, appends and destructions *)

(* the C string the caller's views point into *)
CallerString == << "a", "b" >>

(* json::string views of it: every size up to its length *)
StringViews == { cell(JSON_STRING, n, 0, 0, TRUE) : n \in 0..Len(CallerString) }

Arguments == { cell(JSON_NUMBER, 0, 1, 0, TRUE), cell(JSON_NULL, 0, 0, 0, TRUE) }
                 \cup StringViews

(* what never-written memory holds: a tag and a pointer, to nothing or to *)
(* a buffer                                                               *)
HeapGarbage ==
    { [c |-> " ", tag |-> JSON_UNDEFINED, ptr |-> -1] }
        \cup { [c |-> " ", tag |-> t, ptr |-> p] :
                 t \in {JSON_STRING, JSON_ARRAY}, p \in {-1, 1, 2} }

(* the slots of the array of the live object n, as operator[] gives them *)
SlotsOf(M, n) ==
    IF n \in M.alive /\ M.stack[n].type = JSON_ARRAY /\ live_buffer(M, M.stack[n].ptr)
    THEN { InBuffer(M.stack[n].ptr, i) : i \in 1..M.stack[n].size }
    ELSE {}

Values(M) == { OnStack(n) : n \in M.alive } \cup UNION { SlotsOf(M, n) : n \in Names }

Sources(M) == Values(M) \cup { Passed(c) : c \in Arguments }

(* buffers enough for the operation to complete when it has an end: two   *)
(* copies of the target, one of the source, one array                     *)
Room(M, n, src) ==
    Cardinality(fresh(M)) >=
        2 * Len(owned(M, M.stack[n])) + Len(owned(M, load(M, src))) + 1

InitHeap ==
    /\ op = "start"
    /\ a = Undefined
    /\ b = Undefined
    /\ v = Undefined
    /\ o = {}
    /\ is = NoStream
    /\ garbage \in HeapGarbage
    /\ ret = [target |-> "x", old |-> Undefined, alive |-> FALSE]
    /\ mem = [stack |-> [n \in Objects |-> cell(garbage.tag, 0, 0, garbage.ptr, FALSE)],
              junk |-> cell(garbage.tag, 0, 0, garbage.ptr, FALSE),
              alive |-> {},
              heap |-> [p \in 0..MaxBuffers |->
                            IF p = 0
                            THEN Buffer("live", "caller", CallerString,
                                        Len(CallerString) + 1, <<>>)
                            ELSE Unused],
              status |-> "ok",
              events |-> {},
              ops |-> 0]

(* an operation on the object n with the argument at src has run and      *)
(* left the memory M                                                      *)
Ran(name, n, src, M) ==
    /\ op' = name
    /\ a' = src
    /\ ret' = [target |-> n, old |-> mem.stack[n], alive |-> n \in mem.alive]
    /\ mem' = [M EXCEPT !.ops = @ + 1]
    /\ UNCHANGED <<b, v, o, is, garbage>>

Running == mem.status = "ok" /\ mem.ops < MaxOps

(* value(): the tag set to Undefined *)
Construct ==
    \E n \in Names \ mem.alive :
        /\ Running
        /\ Ran("construct", n, OnStack(n),
               [store(mem, OnStack(n), [mem.junk EXCEPT !.type = JSON_UNDEFINED, !.init = TRUE])
                   EXCEPT !.alive = @ \cup {n}])

(* value(const json::string& s): construct_string(s.data, s.size) *)
ConstructString ==
    \E n \in Names \ mem.alive, s \in StringViews :
        /\ Running
        /\ Room(mem, n, Passed(s))
        /\ Ran("construct_string", n, Passed(s),
               [construct_string_at(mem, OnStack(n), mem.heap[s.ptr].chars, s.size)
                   EXCEPT !.alive = @ \cup {n}])

(* value(const value& v): operator=(v) on the object not yet written *)
ConstructCopy ==
    \E n \in Names \ mem.alive, m \in mem.alive :
        /\ Running
        /\ Room(mem, n, OnStack(m))
        /\ Ran("construct_copy", n, OnStack(m),
               [assign_value(mem, OnStack(n), OnStack(m)) EXCEPT !.alive = @ \cup {n}])

(* value(const json::element& e): operator=(e) on the object not yet written *)
ConstructElement ==
    \E n \in Names \ mem.alive, src \in Sources(mem) :
        /\ Running
        /\ Room(mem, n, src)
        /\ Ran("construct_element", n, src,
               [assign_element(mem, OnStack(n), src) EXCEPT !.alive = @ \cup {n}])

(* n = v, v a value: another object, n itself, a slot of an array *)
AssignValue ==
    \E n \in mem.alive, src \in Values(mem) :
        /\ Running
        /\ Room(mem, n, src)
        /\ Ran("assign_value", n, src, assign_value(mem, OnStack(n), src))

(* n = e, e an element: one the caller passes, or a value taken as one *)
AssignElement ==
    \E n \in mem.alive, src \in Sources(mem) :
        /\ Running
        /\ Room(mem, n, src)
        /\ Ran("assign_element", n, src, assign_element(mem, OnStack(n), src))

(* n = s, s a json::string *)
AssignString ==
    \E n \in mem.alive, s \in StringViews :
        /\ Running
        /\ Room(mem, n, Passed(s))
        /\ Ran("assign_string", n, Passed(s), assign_string(mem, OnStack(n), Passed(s)))

(* n = number, a double: delete_value, then the tag and the number *)
AssignNumber ==
    \E n \in mem.alive :
        /\ Running
        /\ Ran("assign_number", n, Passed(cell(JSON_NUMBER, 0, 1, 0, TRUE)),
               Then(delete_value(mem, OnStack(n)),
                    LAMBDA m : store(m, OnStack(n),
                                     [load(m, OnStack(n)) EXCEPT
                                          !.type = JSON_NUMBER, !.num = 1])))

(* n.push_back(element) *)
PushBack ==
    \E n \in mem.alive, src \in Sources(mem), moved \in BOOLEAN :
        /\ Running
        /\ Room(mem, n, src)
        /\ Ran("push_back", n, src, push_back_array_at(mem, OnStack(n), src, moved))

(* ~value(): delete_value, and the object is gone *)
Destroy ==
    \E n \in mem.alive :
        /\ Running
        /\ Ran("destroy", n, OnStack(n),
               Then(delete_value(mem, OnStack(n)),
                    LAMBDA m : [store(m, OnStack(n), m.junk) EXCEPT !.alive = @ \ {n}]))

NextHeap ==
    \/ Construct
    \/ ConstructString
    \/ ConstructCopy
    \/ ConstructElement
    \/ AssignValue
    \/ AssignElement
    \/ AssignString
    \/ AssignNumber
    \/ PushBack
    \/ Destroy

SpecHeap == InitHeap /\ [][NextHeap]_vars

-----------------------------------------------------------------------------
(* Claims on the memory *)

(* C11 as stated: between operations every buffer that was allocated and  *)
(* not yet freed is owned by a live value: no assignment leaves the       *)
(* buffer of its target behind.                                           *)
C11_NoLeak ==
    mem.status = "ok"
        => \A p \in Addresses :
               mem.heap[p].state = "live" => p \in Range(owned_by_live(mem))

(* C12 as stated: no buffer has two owners among the live values and the  *)
(* elements of their arrays, every buffer they own is one not yet freed,  *)
(* and no buffer is freed twice.                                          *)
C12_ExclusiveOwnership ==
    /\ "double_free" \notin mem.events
    /\ mem.status = "ok"
           => /\ Cardinality(Range(owned_by_live(mem))) = Len(owned_by_live(mem))
              /\ \A p \in Range(owned_by_live(mem)) : live_buffer(mem, p)

(* C13 as stated: a String value built or assigned from the view (n,      *)
(* bytes) has size n and a buffer of n + 1 characters holding the n bytes *)
(* of the view, and the copy stays inside that buffer.                    *)
C13_StringFromView ==
    op \in {"construct_string", "assign_string"}
        => /\ mem.status = "ok"
           /\ "overrun" \notin mem.events
           /\ mem.stack[ret.target].type = JSON_STRING
           /\ mem.stack[ret.target].size = a.cell.size
           /\ mem.heap[mem.stack[ret.target].ptr].chars
                  = SubSeq(CallerString, 1, a.cell.size)

(* C16 as stated: no release acts on a tag that nothing has written, and  *)
(* every free is of a buffer that was allocated.                          *)
C16_ReleaseOwnedOnly ==
    /\ "uninitialised" \notin mem.events
    /\ "wild_free" \notin mem.events

(* the argument of the operation is its target or a slot of its array *)
Aliased ==
    \/ a = OnStack(ret.target)
    \/ a.at = "heap" /\ ret.old.type = JSON_ARRAY /\ a.buf = ret.old.ptr

(* C20 as stated: push_back of the value itself or of an element of its   *)
(* own array completes and leaves an Array one longer (of length 2 when   *)
(* the value was a scalar, 1 when it was Undefined).                      *)
C20_PushBackSelfTerminates ==
    (op = "push_back" /\ Aliased)
        => /\ mem.status = "ok"
           /\ mem.stack[ret.target].type = JSON_ARRAY
           /\ mem.stack[ret.target].size =
                  (IF ret.old.type = JSON_ARRAY THEN ret.old.size + 1
                   ELSE IF ret.old.type = JSON_UNDEFINED THEN 1 ELSE 2)

====
